---- MODULE Spec2Model ----
(***************************************************************************)
(* Model of Github-Inbox-To-Discord.                                       *)
(*                                                                         *)
(*   bot.py                   the discord.py bot: a periodic task and the  *)
(*                            !check command both run                      *)
(*                            fetch_and_send_notifications, which keeps    *)
(*                            its checkpoint in last_check.json   (Spec)   *)
(*   notification_checker.py  the one-shot webhook script         (Spec)   *)
(*   the two record formatters applied to one notification  (FormatSpec)   *)
(*                                                                         *)
(* Times are integers.  An Optional[datetime] that is None is NoTime.      *)
(***************************************************************************)
EXTENDS Integers, Sequences, FiniteSets, TLC

VARIABLES
    \* ---- bot.py ----
    now,                \* wall clock, datetime.now(timezone.utc)
    last_check_file,    \* content of last_check.json
    feed,               \* unread notifications as the GitHub API lists them
    pc,                 \* per runner: where its fetch_and_send_notifications is
    run_id,             \* per runner: the number of its current or last run
    last_check,         \* per runner: local last_check
    fetched,            \* per runner: list(notifications) as fetched
    new_notifications,  \* per runner: local new_notifications
    idx,                \* per runner: position in reversed(new_notifications)
    sent,               \* per runner: notifications channel.send delivered
    failed,             \* per runner: notifications whose format or send raised,
                        \* each with the step that raised
    sent_count,         \* per runner: local sent_count
    save_called,        \* per runner: save_last_check was called in this run
    result,             \* per runner: returned count, or Raised / NoResult
    runs,               \* number of runs started
    failures,           \* number of failures injected so far
    task_running,       \* check_notifications.is_running()
    ready_log,          \* what each on_ready event did, in order
    check_refused,      \* number of !check commands refused for their channel
    \* ---- which script the process runs ----
    program,
    \* ---- notification_checker.py ----
    last_check_time,    \* os.getenv('LAST_CHECK_TIME')
    ck_pc,              \* where run() is
    params_since,       \* params['since'] of the request, NoTime when not set
    response_ok,        \* "ok" when the request succeeded, "error" when it raised
    notifications,      \* the list get_notifications returned
    batch_i,            \* i of the batch loop of send_to_discord
    formatted,          \* ids passed to format_notification_for_discord
    posts,              \* webhook posts attempted, in order
    success,            \* what send_to_discord returned
    final_result,       \* the FINAL RESULT line run() printed
    exit_status,        \* exit status of run()
    \* ---- the formatters, applied to one notification ----
    fmt_notification,   \* the notification
    fmt_done,           \* the formatters that have been applied to it
    fmt_embed,          \* result of format_notification_for_discord
    fmt_display_url,    \* display_url of format_notification_embed
    fmt_reason_text,    \* reason_text of format_notification_embed
    fmt_raised          \* format_notification_for_discord raised

botvars == <<now, last_check_file, feed, pc, run_id, last_check, fetched,
             new_notifications, idx, sent, failed, sent_count, save_called,
             result, runs, failures>>

ckvars == <<last_check_time, ck_pc, params_since, response_ok, notifications, batch_i,
            formatted, posts, success, final_result, exit_status>>

fmtvars == <<fmt_notification, fmt_done, fmt_embed, fmt_display_url,
             fmt_reason_text, fmt_raised>>

evvars == <<task_running, ready_log, check_refused>>

vars == <<botvars, evvars, program, ckvars, fmtvars>>

(***************************************************************************)
(* Bounds                                                                  *)
(***************************************************************************)
MaxTime == 2        \* updated_at values and initial clock range over 0..MaxTime
MaxTicks == 1       \* the clock advances this many times
MaxFeed == 11       \* longest generated feed
MaxRuns == 2        \* runs started in one behaviour
MaxFailures == 1    \* failures injected in one behaviour
MaxChanges == 1     \* the clock moves this much further for changes of the feed
MaxUnread == 3      \* unread notifications while the feed changes
MaxReady == 2       \* on_ready events in one behaviour
MaxRefused == 1     \* !check commands typed in another channel
MaxComments == 3    \* comments an issue or pull request has at most
MaxNotifications == 23  \* longest list the webhook script receives

(***************************************************************************)
(* Program constants                                                       *)
(***************************************************************************)
FirstRunLimit == 10
BatchSize == 10

NoTime == -1
NoResult == -1
Raised == -2

Runners == {"periodic", "manual"}

Min(a, b) == IF a < b THEN a ELSE b

Range(s) == {s[i] : i \in DOMAIN s}

Reverse(s) == [i \in 1..Len(s) |-> s[Len(s) + 1 - i]]

(***************************************************************************)
(* list.sort(key=lambda x: x.updated_at, reverse=True): Python's sort is   *)
(* stable, also with reverse=True, so equal keys keep their order.         *)
(***************************************************************************)
RECURSIVE InsertDesc(_, _)
InsertDesc(x, s) ==
    IF s = <<>> THEN <<x>>
    ELSE IF Head(s).updated_at >= x.updated_at
         THEN <<Head(s)>> \o InsertDesc(x, Tail(s))
         ELSE <<x>> \o s

RECURSIVE SortDescFrom(_, _)
SortDescFrom(acc, s) ==
    IF s = <<>> THEN acc ELSE SortDescFrom(InsertDesc(Head(s), acc), Tail(s))

SortNewestFirst(s) == SortDescFrom(<<>>, s)

(***************************************************************************)
(* last_check.json                                                         *)
(***************************************************************************)
FileAbsent == [kind |-> "absent", t |-> NoTime]
FileEmpty == [kind |-> "empty", t |-> NoTime]      \* truncated: not JSON
FileNoKey == [kind |-> "nokey", t |-> NoTime]      \* JSON without 'last_check'
FileBadTs == [kind |-> "badts", t |-> NoTime]      \* value is no ISO timestamp
FileTs(t) == [kind |-> "ts", t |-> t]

load_last_check_lenient(file) ==
    IF file.kind = "ts" THEN file.t ELSE IF file.kind = "badts" THEN 0 ELSE NoTime

load_last_check(file) == IF file.kind = "ts" THEN file.t ELSE NoTime

save_last_check_skipped(file, timestamp, outcome) == file

\* the file after save_last_check(timestamp) with the given outcome
save_last_check(file, timestamp, outcome) ==
    CASE outcome = "ok" -> FileTs(timestamp)
      [] outcome = "open_failed" -> file
      [] outcome = "write_failed" -> FileEmpty

SaveOutcomes(budget) ==
    IF budget > 0 THEN {"ok", "open_failed", "write_failed"} ELSE {"ok"}

(***************************************************************************)
(* The filter of fetch_and_send_notifications                              *)
(***************************************************************************)
SeenFilterInclusive(n, lc) == n.updated_at >= lc

SeenFilter(n, lc) == n.updated_at > lc

NewNotificationsLastTen(notifications_list, lc) ==
    IF lc # NoTime
    THEN SelectSeq(notifications_list, LAMBDA n : SeenFilter(n, lc))
    ELSE SubSeq(notifications_list,
                Len(notifications_list) - Min(FirstRunLimit, Len(notifications_list)) + 1,
                Len(notifications_list))

\* new_notifications: the filter with a checkpoint, [:10] without one
NewNotifications(notifications_list, lc) ==
    IF lc # NoTime
    THEN SelectSeq(notifications_list, LAMBDA n : SeenFilter(n, lc))
    ELSE SubSeq(notifications_list, 1, Min(FirstRunLimit, Len(notifications_list)))

\* reversed(new_notifications): the order of the send loop
SendOrder(r) == Reverse(new_notifications[r])

(***************************************************************************)
(* Initial states                                                          *)
(***************************************************************************)
Times == 0..MaxTime

Notification(i, t) == [id |-> i, updated_at |-> t]

\* a long feed with mixed, repeating updated_at values in no order
GenFeed(n) == [i \in 1..n |-> Notification(i, (2 * i + (i \div 3)) % (MaxTime + 1))]

\* every feed of at most two notifications, and one of three
ShortFeeds ==
    {<<>>}
    \cup {<<Notification(1, a)>> : a \in Times}
    \cup {<<Notification(1, a), Notification(2, b)>> : a \in Times, b \in Times}
    \cup {GenFeed(3)}

\* a feed longer than the first-run limit
LongFeeds == {GenFeed(MaxFeed)}

Files == {FileAbsent, FileEmpty, FileNoKey, FileBadTs} \cup {FileTs(t) : t \in Times}

\* the files a long feed is combined with
LongFeedFiles == {FileAbsent, FileBadTs, FileTs(0)}

(***************************************************************************)
(* notification_checker.py: LAST_CHECK_TIME and the notifications the API  *)
(* holds.                                                                  *)
(***************************************************************************)
EnvUnset == [kind |-> "unset", t |-> NoTime]
EnvEmpty == [kind |-> "empty", t |-> NoTime]       \* LAST_CHECK_TIME=""
EnvGarbage == [kind |-> "garbage", t |-> NoTime]   \* not an ISO timestamp
EnvIso(t) == [kind |-> "iso", t |-> t]

EnvValues == {EnvUnset, EnvEmpty, EnvGarbage} \cup {EnvIso(t) : t \in Times}

NoUrl == <<>>

\* the formatter's None: the notification is not to be shown
NoEmbed == [none |-> TRUE]

ApiUrl(owner, repo, kind, num) ==
    <<"https:", "/", "/", "api.github.com", "/", "repos", "/", owner, "/", repo,
      "/", kind, "/", num>>

\* the response of the subject's API URL
Lookup(ok, state, merged, draft, status, conclusion) ==
    [ok |-> ok, state |-> state, merged |-> merged, draft |-> draft,
     status |-> status, conclusion |-> conclusion]

NoDetails == Lookup(FALSE, "unknown", FALSE, FALSE, "none", "none")

CkNotification(i, t) ==
    [id |-> i, updated_at |-> t, reason |-> <<"subscribed">>,
     title_cancelled |-> FALSE, issue_comments |-> <<>>, review_comments |-> <<>>,
     subject_type |->
        CASE i % 4 = 0 -> "CheckRun"
          [] i % 4 = 1 -> "PullRequest"
          [] i % 4 = 2 -> "Issue"
          [] OTHER -> "Release",
     url |->
        CASE i % 4 = 0 -> ApiUrl("o", "r", "check-runs", "7")
          [] i % 4 = 1 -> ApiUrl("o", "r", "pulls", "7")
          [] i % 4 = 2 -> ApiUrl("o", "r", "issues", "7")
          [] OTHER -> NoUrl,
     lookup |->
        CASE i % 4 = 0 -> Lookup(TRUE, "unknown", FALSE, FALSE, "completed", "cancelled")
          [] i % 4 = 1 -> Lookup(TRUE, "open", FALSE, FALSE, "none", "none")
          [] i % 4 = 2 -> NoDetails
          [] OTHER -> NoDetails]

CkFeed(n, stride) ==
    [i \in 1..n |-> CkNotification(i, (stride * i + (i \div 4)) % (MaxTime + 1))]

\* the details of the notification at p carry "state": null
NullState(list, p) ==
    [list EXCEPT ![p].lookup = Lookup(TRUE, "null", FALSE, FALSE, "none", "none")]

NullStateFeeds ==
    {NullState(CkFeed(n, 1), p) : n \in {1, 13}, p \in {1}}
    \cup {NullState(CkFeed(13, 1), 13)}

CheckerFeeds ==
    {CkFeed(n, stride) : n \in 0..MaxNotifications, stride \in 1..2}
    \cup NullStateFeeds

BotInit ==
    /\ now = MaxTime
    /\ \/ feed \in ShortFeeds /\ last_check_file \in Files
       \/ feed \in LongFeeds /\ last_check_file \in LongFeedFiles
    /\ pc = [r \in Runners |-> "idle"]
    /\ run_id = [r \in Runners |-> 0]
    /\ last_check = [r \in Runners |-> NoTime]
    /\ fetched = [r \in Runners |-> <<>>]
    /\ new_notifications = [r \in Runners |-> <<>>]
    /\ idx = [r \in Runners |-> 0]
    /\ sent = [r \in Runners |-> <<>>]
    /\ failed = [r \in Runners |-> <<>>]
    /\ sent_count = [r \in Runners |-> 0]
    /\ save_called = [r \in Runners |-> FALSE]
    /\ result = [r \in Runners |-> NoResult]
    /\ runs = 0
    /\ failures = 0

BotDormant ==
    /\ now = 0
    /\ last_check_file = FileAbsent
    /\ pc = [r \in Runners |-> "idle"]
    /\ run_id = [r \in Runners |-> 0]
    /\ last_check = [r \in Runners |-> NoTime]
    /\ fetched = [r \in Runners |-> <<>>]
    /\ new_notifications = [r \in Runners |-> <<>>]
    /\ idx = [r \in Runners |-> 0]
    /\ sent = [r \in Runners |-> <<>>]
    /\ failed = [r \in Runners |-> <<>>]
    /\ sent_count = [r \in Runners |-> 0]
    /\ save_called = [r \in Runners |-> FALSE]
    /\ result = [r \in Runners |-> NoResult]
    /\ runs = 0
    /\ failures = 0

CheckerStart ==
    /\ params_since = NoTime
    /\ response_ok = "none"
    /\ batch_i = 0
    /\ formatted = <<>>
    /\ posts = <<>>
    /\ success = "none"
    /\ final_result = "none"
    /\ exit_status = NoResult

CheckerDormant ==
    /\ last_check_time = EnvUnset
    /\ ck_pc = "start"
    /\ notifications = <<>>
    /\ CheckerStart

\* python notification_checker.py
CheckerInit ==
    /\ last_check_time \in EnvValues
    /\ feed \in CheckerFeeds
    /\ ck_pc = "start"
    /\ notifications = <<>>
    /\ CheckerStart

\* send_to_discord(notifications) called on its own
SendToDiscordInit ==
    /\ last_check_time = EnvUnset
    /\ feed = <<>>
    /\ ck_pc = "call"
    /\ notifications \in CheckerFeeds
    /\ CheckerStart

FormatDormant ==
    /\ fmt_notification = CkNotification(1, 0)
    /\ fmt_done = {}
    /\ fmt_embed = NoEmbed
    /\ fmt_display_url = NoUrl
    /\ fmt_reason_text = <<>>
    /\ fmt_raised = FALSE

\* the bot before its first on_ready event
NotReady ==
    /\ task_running = FALSE
    /\ ready_log = <<>>
    /\ check_refused = 0

\* the bot after the on_ready event of its first connect started the task
TaskStarted ==
    /\ task_running = TRUE
    /\ ready_log = <<"started">>
    /\ check_refused = 0

\* the bot connected once and stays connected
Init ==
    \/ program = "bot" /\ BotInit /\ TaskStarted /\ CheckerDormant /\ FormatDormant
    \/ program = "checker" /\ CheckerInit /\ BotDormant /\ NotReady /\ FormatDormant
    \/ /\ program = "send_to_discord"
       /\ SendToDiscordInit /\ BotDormant /\ NotReady /\ FormatDormant

\* the bot with its task started, a feed that changes while it runs, and no
\* failure left to inject: every send and every save succeeds
SerialInit ==
    /\ program = "bot"
    /\ now = MaxTime
    /\ feed \in {f \in ShortFeeds : Len(f) <= 2}
    /\ last_check_file \in {FileAbsent, FileTs(0), FileTs(1)}
    /\ pc = [r \in Runners |-> "idle"]
    /\ run_id = [r \in Runners |-> 0]
    /\ last_check = [r \in Runners |-> NoTime]
    /\ fetched = [r \in Runners |-> <<>>]
    /\ new_notifications = [r \in Runners |-> <<>>]
    /\ idx = [r \in Runners |-> 0]
    /\ sent = [r \in Runners |-> <<>>]
    /\ failed = [r \in Runners |-> <<>>]
    /\ sent_count = [r \in Runners |-> 0]
    /\ save_called = [r \in Runners |-> FALSE]
    /\ result = [r \in Runners |-> NoResult]
    /\ runs = 0
    /\ failures = MaxFailures
    /\ TaskStarted
    /\ CheckerDormant
    /\ FormatDormant

\* the bot from its start, with its connects, reconnects and commands
ReadyInit ==
    /\ program = "bot"
    /\ now = MaxTime
    /\ feed \in ShortFeeds
    /\ last_check_file \in {FileAbsent, FileTs(0)}
    /\ pc = [r \in Runners |-> "idle"]
    /\ run_id = [r \in Runners |-> 0]
    /\ last_check = [r \in Runners |-> NoTime]
    /\ fetched = [r \in Runners |-> <<>>]
    /\ new_notifications = [r \in Runners |-> <<>>]
    /\ idx = [r \in Runners |-> 0]
    /\ sent = [r \in Runners |-> <<>>]
    /\ failed = [r \in Runners |-> <<>>]
    /\ sent_count = [r \in Runners |-> 0]
    /\ save_called = [r \in Runners |-> FALSE]
    /\ result = [r \in Runners |-> NoResult]
    /\ runs = 0
    /\ failures = 0
    /\ NotReady
    /\ CheckerDormant
    /\ FormatDormant

(***************************************************************************)
(* One notification for the formatters                                     *)
(***************************************************************************)
Subjects ==
    {[subject_type |-> "PullRequest", kind |-> "pulls"],
     [subject_type |-> "Issue", kind |-> "issues"],
     [subject_type |-> "Release", kind |-> "releases"],
     [subject_type |-> "CheckRun", kind |-> "check-runs"]}

Lookups ==
    {NoDetails,
     Lookup(TRUE, "open", FALSE, FALSE, "none", "none"),
     Lookup(TRUE, "open", FALSE, TRUE, "none", "none"),
     Lookup(TRUE, "closed", FALSE, FALSE, "none", "none"),
     Lookup(TRUE, "closed", TRUE, FALSE, "none", "none"),
     Lookup(TRUE, "unknown", FALSE, FALSE, "completed", "cancelled"),
     Lookup(TRUE, "unknown", FALSE, FALSE, "completed", "success"),
     Lookup(TRUE, "unknown", FALSE, FALSE, "completed", "skipped"),
     Lookup(TRUE, "unknown", FALSE, FALSE, "completed", "failure"),
     Lookup(TRUE, "null", FALSE, FALSE, "none", "none")}

\* reason codes, as the words and underscores they are written with
Reasons ==
    {<<"mention">>, <<"review", "_", "requested">>, <<"ci", "_", "activity">>}

FormatInputs ==
    {[id |-> 1, updated_at |-> 0, reason |-> reason, title_cancelled |-> FALSE,
      subject_type |-> sub.subject_type,
      url |-> ApiUrl("o", repo, sub.kind, "7"),
      issue_comments |-> <<>>, review_comments |-> <<>>,
      lookup |-> lookup] :
        sub \in Subjects, repo \in {"r", "pulls", "issues"}, lookup \in Lookups,
        reason \in Reasons}
    \cup {[id |-> 1, updated_at |-> 0, reason |-> <<"ci", "_", "activity">>,
           title_cancelled |-> tc, subject_type |-> "CheckSuite", url |-> NoUrl,
           issue_comments |-> <<>>, review_comments |-> <<>>,
           lookup |-> NoDetails] : tc \in BOOLEAN}

(***************************************************************************)
(* A comment or mention notification and the comments of its subject.      *)
(* Times are seconds here.                                                 *)
(***************************************************************************)
NotificationTime == 600

CommentTimes == {0, 250, 600, 700, 900, 1000}

\* the elements of a set of numbers in ascending order
RECURSIVE Ascending(_)
Ascending(S) ==
    IF S = {} THEN <<>>
    ELSE LET m == CHOOSE x \in S : \A y \in S : x <= y
         IN <<m>> \o Ascending(S \ {m})

\* the comments endpoints list comments in ascending order of creation
CommentList(times, first_id) ==
    LET asc == Ascending(times)
    IN [k \in 1..Len(asc) |-> [id |-> first_id + k, created_at |-> asc[k]]]

CommentLists ==
    {CommentList(times, 0) :
        times \in {T \in SUBSET CommentTimes : Cardinality(T) <= MaxComments}}

ReviewCommentLists == {<<>>, CommentList({650}, 100), CommentList({600, 1000}, 100)}

CommentInputs ==
    {[id |-> 1, updated_at |-> NotificationTime, reason |-> reason,
      title_cancelled |-> FALSE,
      subject_type |-> sub.subject_type,
      url |-> ApiUrl("o", "r", sub.kind, "7"),
      issue_comments |-> ic, review_comments |-> rc,
      lookup |-> NoDetails] :
        sub \in {x \in Subjects : x.subject_type \in {"PullRequest", "Issue"}},
        reason \in {<<"comment">>, <<"mention">>},
        ic \in CommentLists, rc \in ReviewCommentLists}

FormatInit ==
    /\ program = "format"
    /\ fmt_notification \in FormatInputs \cup CommentInputs
    /\ fmt_done = {}
    /\ fmt_embed = NoEmbed
    /\ fmt_display_url = NoUrl
    /\ fmt_reason_text = <<>>
    /\ fmt_raised = FALSE
    /\ feed = <<>>
    /\ BotDormant
    /\ NotReady
    /\ CheckerDormant

Tick ==
    /\ now < MaxTime + MaxTicks
    /\ now' = now + 1
    /\ UNCHANGED <<last_check_file, feed, pc, run_id, last_check, fetched,
                   new_notifications, idx, sent, failed, sent_count,
                   save_called, result, runs, failures>>

Failure(n, step) == [notification |-> n, step |-> step]

Idle(r) == pc[r] \in {"idle", "done", "raised", "nochannel"}

\* the loop body of check_notifications runs only once the task was started;
\* a !check command needs no task
Scheduled(r) == r = "periodic" => task_running

(***************************************************************************)
(* The end of fetch_and_send_notifications: save_last_check(now), return   *)
(* sent_count.  save_last_check swallows its own failure.                  *)
(***************************************************************************)
Finish(r, sc, used) ==
    \E o \in SaveOutcomes(MaxFailures - used) :
        /\ last_check_file' = save_last_check(last_check_file, now, o)
        /\ failures' = used + (IF o = "ok" THEN 0 ELSE 1)
        /\ save_called' = [save_called EXCEPT ![r] = TRUE]
        /\ result' = [result EXCEPT ![r] = sc]
        /\ pc' = [pc EXCEPT ![r] = "done"]

(***************************************************************************)
(* The send loop arrives at position i of order.  format_notification_embed*)
(* raises for the next k notifications (each is logged and skipped without *)
(* suspending); then either channel.send is awaited for position i + k, or *)
(* the loop is over and the run finishes.                                  *)
(***************************************************************************)
LoopFrom(r, order, i, fl, sc, used) ==
    \E k \in 0..Min(Len(order) - i + 1, MaxFailures - used) :
        LET j == i + k IN
        /\ failed' = [failed EXCEPT ![r] =
                          fl \o [m \in 1..k |-> Failure(order[i + m - 1], "format")]]
        /\ sent_count' = [sent_count EXCEPT ![r] = sc]
        /\ idx' = [idx EXCEPT ![r] = j]
        /\ IF j <= Len(order)
           THEN /\ pc' = [pc EXCEPT ![r] = "send"]
                /\ failures' = used + k
                /\ save_called' = [save_called EXCEPT ![r] = FALSE]
                /\ result' = [result EXCEPT ![r] = NoResult]
                /\ UNCHANGED last_check_file
           ELSE Finish(r, sc, used + k)

(***************************************************************************)
(* fetch_and_send_notifications up to its first await: load the checkpoint,*)
(* fetch, sort newest first, filter, enter the send loop.                  *)
(***************************************************************************)
Begin(r) ==
    /\ Idle(r)
    /\ Scheduled(r)
    /\ runs < MaxRuns
    /\ runs' = runs + 1
    /\ run_id' = [run_id EXCEPT ![r] = runs + 1]
    /\ LET lc == load_last_check(last_check_file)
           notifications_list == SortNewestFirst(feed)
           new == NewNotifications(notifications_list, lc)
       IN /\ last_check' = [last_check EXCEPT ![r] = lc]
          /\ fetched' = [fetched EXCEPT ![r] = feed]
          /\ new_notifications' = [new_notifications EXCEPT ![r] = new]
          /\ sent' = [sent EXCEPT ![r] = <<>>]
          /\ LoopFrom(r, Reverse(new), 1, <<>>, 0, failures)
    /\ UNCHANGED <<now, feed>>

AbortRunSavingCheckpoint(r, lc) ==
    /\ last_check' = [last_check EXCEPT ![r] = lc]
    /\ fetched' = [fetched EXCEPT ![r] = <<>>]
    /\ new_notifications' = [new_notifications EXCEPT ![r] = <<>>]
    /\ idx' = [idx EXCEPT ![r] = 0]
    /\ sent' = [sent EXCEPT ![r] = <<>>]
    /\ failed' = [failed EXCEPT ![r] = <<>>]
    /\ sent_count' = [sent_count EXCEPT ![r] = 0]
    /\ save_called' = [save_called EXCEPT ![r] = TRUE]
    /\ result' = [result EXCEPT ![r] = Raised]
    /\ pc' = [pc EXCEPT ![r] = "raised"]
    /\ last_check_file' = FileTs(now)

\* the state a run is left in when the GitHub request raises
AbortRun(r, lc) ==
    /\ last_check' = [last_check EXCEPT ![r] = lc]
    /\ fetched' = [fetched EXCEPT ![r] = <<>>]
    /\ new_notifications' = [new_notifications EXCEPT ![r] = <<>>]
    /\ idx' = [idx EXCEPT ![r] = 0]
    /\ sent' = [sent EXCEPT ![r] = <<>>]
    /\ failed' = [failed EXCEPT ![r] = <<>>]
    /\ sent_count' = [sent_count EXCEPT ![r] = 0]
    /\ save_called' = [save_called EXCEPT ![r] = FALSE]
    /\ result' = [result EXCEPT ![r] = Raised]
    /\ pc' = [pc EXCEPT ![r] = "raised"]
    /\ UNCHANGED last_check_file

(***************************************************************************)
(* get_user() raises, or list(notifications) raises: the exception is      *)
(* logged and re-raised to the caller.                                     *)
(***************************************************************************)
FetchFails(r) ==
    /\ Idle(r)
    /\ Scheduled(r)
    /\ runs < MaxRuns
    /\ failures < MaxFailures
    /\ runs' = runs + 1
    /\ run_id' = [run_id EXCEPT ![r] = runs + 1]
    /\ failures' = failures + 1
    /\ AbortRun(r, load_last_check(last_check_file))
    /\ UNCHANGED <<now, feed>>

(***************************************************************************)
(* bot.get_channel returns None: log and return 0.                         *)
(***************************************************************************)
ChannelMissing(r) ==
    /\ Idle(r)
    /\ Scheduled(r)
    /\ runs < MaxRuns
    /\ failures < MaxFailures
    /\ runs' = runs + 1
    /\ run_id' = [run_id EXCEPT ![r] = runs + 1]
    /\ failures' = failures + 1
    /\ last_check' = [last_check EXCEPT ![r] = NoTime]
    /\ fetched' = [fetched EXCEPT ![r] = <<>>]
    /\ new_notifications' = [new_notifications EXCEPT ![r] = <<>>]
    /\ idx' = [idx EXCEPT ![r] = 0]
    /\ sent' = [sent EXCEPT ![r] = <<>>]
    /\ failed' = [failed EXCEPT ![r] = <<>>]
    /\ sent_count' = [sent_count EXCEPT ![r] = 0]
    /\ save_called' = [save_called EXCEPT ![r] = FALSE]
    /\ result' = [result EXCEPT ![r] = 0]
    /\ pc' = [pc EXCEPT ![r] = "nochannel"]
    /\ UNCHANGED <<now, feed, last_check_file>>

SendOkSaving(r) ==
    /\ pc[r] = "send"
    /\ sent' = [sent EXCEPT ![r] = Append(@, SendOrder(r)[idx[r]])]
    /\ sent_count' = [sent_count EXCEPT ![r] = @ + 1]
    /\ pc' = [pc EXCEPT ![r] = "sleep"]
    /\ last_check_file' = FileTs(now)
    /\ UNCHANGED <<now, feed, run_id, last_check, fetched,
                   new_notifications, idx, failed, save_called, result,
                   runs, failures>>

(***************************************************************************)
(* await channel.send(embed) returns: count it and sleep one second.       *)
(***************************************************************************)
SendOk(r) ==
    /\ pc[r] = "send"
    /\ sent' = [sent EXCEPT ![r] = Append(@, SendOrder(r)[idx[r]])]
    /\ sent_count' = [sent_count EXCEPT ![r] = @ + 1]
    /\ pc' = [pc EXCEPT ![r] = "sleep"]
    /\ UNCHANGED <<now, last_check_file, feed, run_id, last_check, fetched,
                   new_notifications, idx, failed, save_called, result,
                   runs, failures>>

SendFailsStops(r) ==
    /\ pc[r] = "send"
    /\ failures < MaxFailures
    /\ failed' = [failed EXCEPT ![r] = Append(@, Failure(SendOrder(r)[idx[r]], "send"))]
    /\ Finish(r, sent_count[r], failures + 1)
    /\ UNCHANGED <<now, feed, run_id, last_check, fetched, new_notifications,
                   sent, runs, sent_count, idx>>

(***************************************************************************)
(* await channel.send(embed) raises: log it and go on with the loop.       *)
(***************************************************************************)
SendFails(r) ==
    /\ pc[r] = "send"
    /\ failures < MaxFailures
    /\ LoopFrom(r, SendOrder(r), idx[r] + 1,
                Append(failed[r], Failure(SendOrder(r)[idx[r]], "send")),
                sent_count[r],
                failures + 1)
    /\ UNCHANGED <<now, feed, run_id, last_check, fetched, new_notifications,
                   sent, runs>>

(***************************************************************************)
(* await asyncio.sleep(1) returns: go on with the loop.                    *)
(***************************************************************************)
Wake(r) ==
    /\ pc[r] = "sleep"
    /\ LoopFrom(r, SendOrder(r), idx[r] + 1, failed[r], sent_count[r], failures)
    /\ UNCHANGED <<now, feed, run_id, last_check, fetched, new_notifications,
                   sent, runs>>

(***************************************************************************)
(* notification_checker.py: the record formatter                           *)
(***************************************************************************)
TYPE_COLORS(subject_type) ==
    CASE subject_type = "Issue" -> 14362487
      [] subject_type = "PullRequest" -> 9133302
      [] subject_type = "Release" -> 16096779
      [] subject_type = "Discussion" -> 3900150
      [] subject_type = "Commit" -> 7041664
      [] subject_type = "SecurityAdvisory" -> 16739125
      [] OTHER -> 5791849

STATE_COLORS(state) ==
    CASE state = "open" -> 1096065
      [] state = "closed" -> 15680580
      [] state = "merged" -> 9133302

\* str.lower() and str.title() on the words of the model
Lower(str) ==
    CASE str = "OPEN" -> "open"
      [] str = "Closed" -> "closed"
      [] OTHER -> str

Title(str) ==
    CASE str = "open" -> "Open"
      [] str = "closed" -> "Closed"
      [] str = "unknown" -> "Unknown"
      [] str = "draft" -> "Draft"
      [] str = "ci" -> "Ci"
      [] str = "activity" -> "Activity"
      [] str = "review" -> "Review"
      [] str = "requested" -> "Requested"
      [] str = "mention" -> "Mention"
      [] str = "subscribed" -> "Subscribed"
      [] OTHER -> str

\* pat in s, for strings as token sequences
Contains(s, pat) ==
    \E i \in 1..(Len(s) - Len(pat) + 1) : SubSeq(s, i, i + Len(pat) - 1) = pat

\* s.replace(pat, new): every non-overlapping occurrence, left to right
RECURSIVE Replace(_, _, _)
Replace(s, pat, new) ==
    IF Len(s) < Len(pat) THEN s
    ELSE IF SubSeq(s, 1, Len(pat)) = pat
         THEN new \o Replace(SubSeq(s, Len(pat) + 1, Len(s)), pat, new)
         ELSE <<Head(s)>> \o Replace(Tail(s), pat, new)

\* "Convert API URL to a user-friendly web URL"
WebUrl(api_url) ==
    LET web_url == Replace(api_url, <<"api.github.com", "/", "repos">>, <<"github.com">>)
    IN IF Contains(web_url, <<"/", "pulls", "/">>)
       THEN Replace(web_url, <<"/", "pulls", "/">>, <<"/", "pull", "/">>)
       ELSE web_url

\* _get_subject_details(url): None without a URL or when the request fails
SubjectDetails(n) == IF n.url = NoUrl \/ ~n.lookup.ok THEN NoDetails ELSE n.lookup

(***************************************************************************)
(* notification_checker.py: get_comment_content                            *)
(***************************************************************************)
time_tolerance_seconds == 300

NoComment == [id |-> 0, created_at |-> NoTime]

Abs(x) == IF x < 0 THEN 0 - x ELSE x

\* all_comments.sort(key=lambda x: x['created_at'], reverse=True), stable
RECURSIVE InsertNewest(_, _)
InsertNewest(x, s) ==
    IF s = <<>> THEN <<x>>
    ELSE IF Head(s).created_at >= x.created_at
         THEN <<Head(s)>> \o InsertNewest(x, Tail(s))
         ELSE <<x>> \o s

RECURSIVE SortCommentsFrom(_, _)
SortCommentsFrom(acc, s) ==
    IF s = <<>> THEN acc ELSE SortCommentsFrom(InsertNewest(Head(s), acc), Tail(s))

\* re.search(r'/<kind>/(\d+)', subject_url)
HasNumberAfter(url, kind) ==
    \E i \in 1..(Len(url) - 3) :
        SubSeq(url, i, i + 2) = <<"/", kind, "/">> /\ url[i + 3] \in {"7"}

\* the position at which a loop over positions breaks, 0 when it does not
FirstOf(hits) ==
    IF hits = {} THEN 0 ELSE CHOOSE i \in hits : \A j \in hits : i <= j

\* the three loops over the comments in scan order (newest first): the first
\* within the tolerance, else the first not after the notification, else the
\* first of the scan
MatchingComment(scan, notification_time) ==
    LET within == FirstOf({i \in 1..Len(scan) :
                      Abs(notification_time - scan[i].created_at)
                          <= time_tolerance_seconds})
        before == FirstOf({i \in 1..Len(scan) :
                      scan[i].created_at <= notification_time})
    IN IF within # 0 THEN scan[within]
       ELSE IF before # 0 THEN scan[before]
       ELSE scan[1]

get_comment_content(n) ==
    IF n.reason \notin {<<"comment">>, <<"mention">>} THEN NoComment
    ELSE IF n.url = NoUrl THEN NoComment
    ELSE IF n.subject_type = "Issue"
         THEN IF HasNumberAfter(n.url, "issues") /\ n.issue_comments # <<>>
              THEN MatchingComment(Reverse(n.issue_comments), n.updated_at)
              ELSE NoComment
    ELSE IF n.subject_type = "PullRequest"
         THEN LET all_comments ==
                      SortCommentsFrom(<<>>, n.issue_comments \o n.review_comments)
              IN IF HasNumberAfter(n.url, "pulls") /\ all_comments # <<>>
                 THEN MatchingComment(all_comments, n.updated_at)
                 ELSE NoComment
    ELSE NoComment

LifecycleIgnoringMerged(subject_type, details) ==
    CASE ~details.ok -> "none"
      [] subject_type \in {"PullRequest", "Issue"} /\ Lower(details.state) = "open"
            -> "open"
      [] subject_type \in {"PullRequest", "Issue"} /\ Lower(details.state) = "closed"
            -> "closed"
      [] OTHER -> "none"

\* the branch of the if/elif chains that sets embed_color from STATE_COLORS,
\* "none" when no branch does
Lifecycle(subject_type, details) ==
    CASE ~details.ok -> "none"
      [] subject_type = "PullRequest" /\ details.merged -> "merged"
      [] subject_type \in {"PullRequest", "Issue"} /\ Lower(details.state) = "open"
            -> "open"
      [] subject_type \in {"PullRequest", "Issue"} /\ Lower(details.state) = "closed"
            -> "closed"
      [] OTHER -> "none"

\* the exception of None.lower()
AttributeError == [raised |-> "AttributeError"]

\* details.get('state', 'unknown').lower() with "state": null in the details
FormatRaises(n) == SubjectDetails(n).ok /\ SubjectDetails(n).state = "null"

format_notification_for_discord(n) ==
    LET subject_type == n.subject_type
        details == SubjectDetails(n)
        state == Lower(details.state)
        is_workflow_notification == subject_type \in {"CheckSuite", "CheckRun"}
        skip ==
            /\ details.ok
            /\ is_workflow_notification
            /\ \/ n.title_cancelled
               \/ /\ details.status = "completed"
                  /\ details.conclusion \in {"cancelled", "skipped", "failure"}
        lifecycle == Lifecycle(subject_type, details)
        embed_color ==
            IF lifecycle = "none" THEN TYPE_COLORS(subject_type)
            ELSE STATE_COLORS(lifecycle)
        status_value ==
            CASE ~details.ok -> "Unavailable"
              [] lifecycle = "merged" -> "Merged"
              [] lifecycle = "open" /\ subject_type = "PullRequest" /\ details.draft
                    -> "Open (Draft)"
              [] OTHER -> Title(state)
    IN IF FormatRaises(n) THEN AttributeError
       ELSE IF skip THEN NoEmbed
       ELSE [id |-> n.id, color |-> embed_color, timestamp |-> n.updated_at,
             url |-> IF n.url # NoUrl THEN WebUrl(n.url) ELSE NoUrl,
             type |-> subject_type, reason |-> n.reason,
             status |-> status_value, comment |-> get_comment_content(n)]

(***************************************************************************)
(* notification_checker.py: get_notifications                              *)
(***************************************************************************)
\* datetime.fromisoformat(value.replace('Z', '+00:00')) does not raise
IsIsoTimestamp(value) == value.kind = "iso"

\* params['since'], NoTime when the request carries no since parameter
SinceParam(value) ==
    IF value.kind \in {"unset", "empty"} THEN NoTime
    ELSE IF IsIsoTimestamp(value) THEN value.t
    ELSE NoTime

\* what GET /notifications answers: only results updated after since
ApiResponse(list, since) ==
    IF since = NoTime THEN list
    ELSE SelectSeq(list, LAMBDA n : n.updated_at > since)

\* notifications.sort(key=lambda n: n['updated_at']): stable, oldest first
RECURSIVE InsertAsc(_, _)
InsertAsc(x, s) ==
    IF s = <<>> THEN <<x>>
    ELSE IF Head(s).updated_at <= x.updated_at
         THEN <<Head(s)>> \o InsertAsc(x, Tail(s))
         ELSE <<x>> \o s

RECURSIVE SortAscFrom(_, _)
SortAscFrom(acc, s) ==
    IF s = <<>> THEN acc ELSE SortAscFrom(InsertAsc(Head(s), acc), Tail(s))

SortOldestFirst(s) == SortAscFrom(<<>>, s)

\* run(): "if notifications:" decides between send_to_discord and the end
RunBranch(list) ==
    IF list = <<>>
    THEN /\ final_result' = "no_new"
         /\ exit_status' = 0
         /\ ck_pc' = "exited"
    ELSE /\ ck_pc' = "call"
         /\ UNCHANGED <<final_result, exit_status>>

(***************************************************************************)
(* The request raises RequestException (transport error or non-2xx):       *)
(* get_notifications prints it and returns [].                             *)
(***************************************************************************)
GetNotificationsFails ==
    /\ ck_pc = "start"
    /\ params_since' = SinceParam(last_check_time)
    /\ response_ok' = "error"
    /\ notifications' = <<>>
    /\ RunBranch(<<>>)
    /\ UNCHANGED <<last_check_time, batch_i, formatted, posts, success>>

(***************************************************************************)
(* The request succeeds: get_notifications returns the response.           *)
(***************************************************************************)
GetNotifications ==
    /\ ck_pc = "start"
    /\ params_since' = SinceParam(last_check_time)
    /\ response_ok' = "ok"
    /\ LET response == ApiResponse(feed, SinceParam(last_check_time))
       IN /\ notifications' = response
          /\ RunBranch(response)
    /\ UNCHANGED <<last_check_time, batch_i, formatted, posts, success>>

(***************************************************************************)
(* notification_checker.py: send_to_discord                                *)
(***************************************************************************)
BatchOverlapping(list, i) == SubSeq(list, i + 1, Min(i + BatchSize + 1, Len(list)))

\* notifications[i:i+10]
Batch(list, i) == SubSeq(list, i + 1, Min(i + BatchSize, Len(list)))

Ids(list) == [k \in 1..Len(list) |-> list[k].id]

\* the embeds of a batch: the formatter's results that are not None
Embeds(batch) ==
    SelectSeq([k \in 1..Len(batch) |-> format_notification_for_discord(batch[k])],
              LAMBDA e : e # NoEmbed)

Payload(batch) == [content_count |-> Len(batch), embeds |-> Embeds(batch)]

PostAlwaysPaused(batch, ok, paused) ==
    [batch |-> Ids(batch), payload |-> Payload(batch), ok |-> ok, paused |-> TRUE]

\* one webhook post: its batch, its payload, whether it succeeded and whether
\* time.sleep(1) followed it
Post(batch, ok, paused) ==
    [batch |-> Ids(batch), payload |-> Payload(batch), ok |-> ok, paused |-> paused]

\* the loop has another batch after the one at i
MoreBatches(list, i) == i + BatchSize < Len(list)

\* what send_to_discord returns for an empty list
EmptyResult == "True"

\* the positions of a batch at which the formatter raises
Raising(batch) == {k \in 1..Len(batch) : FormatRaises(batch[k])}

(***************************************************************************)
(* Entry of send_to_discord: an empty list returns at once, any other is   *)
(* sorted in place, oldest first, before the batch loop.                   *)
(***************************************************************************)
SendToDiscord ==
    /\ ck_pc = "call"
    /\ IF notifications = <<>>
       THEN /\ success' = EmptyResult
            /\ ck_pc' = "returned"
            /\ UNCHANGED <<notifications, batch_i>>
       ELSE /\ notifications' = SortOldestFirst(notifications)
            /\ batch_i' = 0
            /\ ck_pc' = "sending"
            /\ UNCHANGED success
    /\ UNCHANGED <<last_check_time, params_since, response_ok, formatted, posts,
                   final_result, exit_status>>

(***************************************************************************)
(* One iteration of the batch loop whose post succeeds.                    *)
(***************************************************************************)
PostOk ==
    /\ ck_pc = "sending"
    /\ Raising(Batch(notifications, batch_i)) = {}
    /\ LET batch == Batch(notifications, batch_i)
           more == MoreBatches(notifications, batch_i)
       IN /\ formatted' = formatted \o Ids(batch)
          /\ posts' = Append(posts, Post(batch, TRUE, more))
          /\ IF more
             THEN /\ batch_i' = batch_i + BatchSize
                  /\ UNCHANGED <<ck_pc, success>>
             ELSE /\ success' = "True"
                  /\ ck_pc' = "returned"
                  /\ UNCHANGED batch_i
    /\ UNCHANGED <<last_check_time, params_since, response_ok, notifications,
                   final_result, exit_status>>

PostFailedContinues(batch) ==
    /\ formatted' = formatted \o Ids(batch)
    /\ posts' = Append(posts, Post(batch, FALSE, FALSE))
    /\ IF MoreBatches(notifications, batch_i)
       THEN /\ batch_i' = batch_i + BatchSize
            /\ UNCHANGED <<ck_pc, success>>
       ELSE /\ success' = "False"
            /\ ck_pc' = "returned"
            /\ UNCHANGED batch_i

\* what a failed post leaves: send_to_discord returns False
PostFailed(batch) ==
    /\ formatted' = formatted \o Ids(batch)
    /\ posts' = Append(posts, Post(batch, FALSE, FALSE))
    /\ success' = "False"
    /\ ck_pc' = "returned"
    /\ UNCHANGED batch_i

(***************************************************************************)
(* One iteration of the batch loop whose post raises RequestException.     *)
(***************************************************************************)
PostFails ==
    /\ ck_pc = "sending"
    /\ Raising(Batch(notifications, batch_i)) = {}
    /\ PostFailed(Batch(notifications, batch_i))
    /\ UNCHANGED <<last_check_time, params_since, response_ok, notifications,
                   final_result, exit_status>>

(***************************************************************************)
(* One iteration of the batch loop in which the formatter raises: nothing  *)
(* in send_to_discord or run() catches it, the batch is not posted.  Run   *)
(* as a script, __main__ prints FATAL ERROR and exits with status 1.       *)
(***************************************************************************)
FormatCrash ==
    /\ ck_pc = "sending"
    /\ Raising(Batch(notifications, batch_i)) # {}
    /\ LET batch == Batch(notifications, batch_i)
           first == CHOOSE k \in Raising(batch) : \A j \in Raising(batch) : k <= j
       IN formatted' = formatted \o Ids(SubSeq(batch, 1, first))
    /\ IF program = "checker"
       THEN /\ ck_pc' = "fatal"
            /\ final_result' = "fatal"
            /\ exit_status' = 1
       ELSE /\ ck_pc' = "raised"
            /\ UNCHANGED <<final_result, exit_status>>
    /\ UNCHANGED <<last_check_time, params_since, response_ok, notifications,
                   batch_i, posts, success>>

ExitStatusAlwaysZero(succ) == 0

\* run(): sys.exit(1) when send_to_discord did not succeed
ExitStatus(succ) == IF succ = "True" THEN 0 ELSE 1

(***************************************************************************)
(* run() after send_to_discord returned.                                   *)
(***************************************************************************)
RunExit ==
    /\ ck_pc = "returned"
    /\ program = "checker"
    /\ final_result' = IF success = "True" THEN "success" ELSE "failed"
    /\ exit_status' = ExitStatus(success)
    /\ ck_pc' = "exited"
    /\ UNCHANGED <<last_check_time, params_since, response_ok, notifications,
                   batch_i, formatted, posts, success>>

(***************************************************************************)
(* bot.py: display_url of format_notification_embed                        *)
(***************************************************************************)
DisplayUrl(url) ==
    IF url = NoUrl THEN url
    ELSE LET display_url ==
                 Replace(url, <<"api.github.com", "/", "repos">>, <<"github.com">>)
         IN IF Contains(display_url, <<"/", "pulls", "/">>)
            THEN Replace(display_url, <<"/", "pulls", "/">>, <<"/", "pull", "/">>)
            ELSE IF Contains(display_url, <<"/", "issues", "/">>)
                 THEN Replace(display_url, <<"/", "issues", "/">>, <<"/", "issues", "/">>)
                 ELSE display_url

\* title() of a text: every word of it capitalised
TitleCase(text) == [k \in 1..Len(text) |-> Title(text[k])]

\* reason_descriptions.get(reason, reason.replace('_', ' ').title())
reason_descriptions(reason) ==
    CASE reason = <<"assign">> -> <<"You were assigned to this">>
      [] reason = <<"author">> -> <<"You created this">>
      [] reason = <<"comment">> -> <<"New comment on this">>
      [] reason = <<"invitation">> -> <<"You were invited to collaborate">>
      [] reason = <<"manual">> -> <<"You subscribed to this">>
      [] reason = <<"mention">> -> <<"You were mentioned in this">>
      [] reason = <<"review", "_", "requested">> -> <<"Your review was requested">>
      [] reason = <<"security", "_", "alert">> -> <<"Security alert for this repository">>
      [] reason = <<"state", "_", "change">> -> <<"Status changed on this">>
      [] reason = <<"subscribed">> -> <<"You are watching this">>
      [] reason = <<"team", "_", "mention">> -> <<"Your team was mentioned">>
      [] OTHER -> TitleCase(Replace(reason, <<"_">>, <<" ">>))

FormatNotificationForDiscord ==
    /\ "checker" \notin fmt_done
    /\ LET embed == format_notification_for_discord(fmt_notification)
       IN IF embed = AttributeError
          THEN fmt_raised' = TRUE /\ UNCHANGED fmt_embed
          ELSE fmt_embed' = embed /\ UNCHANGED fmt_raised
    /\ fmt_done' = fmt_done \cup {"checker"}
    /\ UNCHANGED <<fmt_notification, fmt_display_url, fmt_reason_text>>

FormatNotificationEmbed ==
    /\ "bot" \notin fmt_done
    /\ fmt_display_url' = DisplayUrl(fmt_notification.url)
    /\ fmt_reason_text' = reason_descriptions(fmt_notification.reason)
    /\ fmt_done' = fmt_done \cup {"bot"}
    /\ UNCHANGED <<fmt_notification, fmt_embed, fmt_raised>>

Format(A) ==
    program = "format" /\ A /\ UNCHANGED <<program, botvars, evvars, ckvars>>

FormatNext ==
    \/ Format(FormatNotificationForDiscord)
    \/ Format(FormatNotificationEmbed)

FormatSpec == FormatInit /\ [][FormatNext]_vars

Bot(A) == program = "bot" /\ A /\ UNCHANGED <<program, evvars, ckvars, fmtvars>>

Checker(A) ==
    /\ program \in {"checker", "send_to_discord"}
    /\ A
    /\ UNCHANGED <<program, botvars, evvars, fmtvars>>

(***************************************************************************)
(* bot.py: on_ready and the channel test of the !check command             *)
(***************************************************************************)
OnReadyAlwaysStarts ==
    /\ Len(ready_log) < MaxReady
    /\ task_running' = TRUE
    /\ ready_log' = Append(ready_log, "started")
    /\ UNCHANGED <<botvars, check_refused>>

\* on_ready with the channel found: start the task unless it is running
OnReady ==
    /\ Len(ready_log) < MaxReady
    /\ IF ~task_running
       THEN /\ task_running' = TRUE
            /\ ready_log' = Append(ready_log, "started")
       ELSE /\ ready_log' = Append(ready_log, "running")
            /\ UNCHANGED task_running
    /\ UNCHANGED <<botvars, check_refused>>

\* on_ready with bot.get_channel returning None: log the error and return
OnReadyNoChannel ==
    /\ Len(ready_log) < MaxReady
    /\ ready_log' = Append(ready_log, "no_channel")
    /\ UNCHANGED <<botvars, task_running, check_refused>>

ManualCheckWrongChannelRuns ==
    /\ check_refused < MaxRefused
    /\ check_refused' = check_refused + 1
    /\ Begin("manual")
    /\ UNCHANGED <<task_running, ready_log>>

\* !check typed in another channel: answer there and return
ManualCheckWrongChannel ==
    /\ check_refused < MaxRefused
    /\ check_refused' = check_refused + 1
    /\ UNCHANGED <<botvars, task_running, ready_log>>

Discord(A) == program = "bot" /\ A /\ UNCHANGED <<program, ckvars, fmtvars>>

ReadyNext ==
    \/ Discord(OnReady)
    \/ Discord(OnReadyNoChannel)
    \/ Discord(ManualCheckWrongChannel)
    \/ Bot(Tick)
    \/ \E r \in Runners : Bot(Begin(r))
    \/ \E r \in Runners : Bot(FetchFails(r))
    \/ \E r \in Runners : Bot(ChannelMissing(r))
    \/ \E r \in Runners : Bot(SendOk(r))
    \/ \E r \in Runners : Bot(SendFails(r))
    \/ \E r \in Runners : Bot(Wake(r))

ReadySpec == ReadyInit /\ [][ReadyNext]_vars

(***************************************************************************)
(* unread one gets new activity and with it a new updated_at.  Either      *)
(* happens later than everything before it: the clock moves on to the time *)
(* of the change, and whatever the bot does next it does at or after it.   *)
(***************************************************************************)
NotificationArrives ==
    /\ Len(feed) < MaxUnread
    /\ now < MaxTime + MaxTicks + MaxChanges
    /\ now' = now + 1
    /\ feed' = Append(feed, Notification(Len(feed) + 1, now + 1))
    /\ UNCHANGED <<last_check_file, pc, run_id, last_check, fetched,
                   new_notifications, idx, sent, failed, sent_count, save_called,
                   result, runs, failures>>

NotificationUpdated(i) ==
    /\ i \in 1..Len(feed)
    /\ now < MaxTime + MaxTicks + MaxChanges
    /\ now' = now + 1
    /\ feed' = [feed EXCEPT ![i].updated_at = now + 1]
    /\ UNCHANGED <<last_check_file, pc, run_id, last_check, fetched,
                   new_notifications, idx, sent, failed, sent_count, save_called,
                   result, runs, failures>>

\* a run started while no other is in progress
SerialBegin(r) ==
    /\ \A q \in Runners : Idle(q)
    /\ Begin(r)

SerialNext ==
    \/ Bot(Tick)
    \/ Bot(NotificationArrives)
    \/ \E i \in 1..MaxUnread : Bot(NotificationUpdated(i))
    \/ \E r \in Runners : Bot(SerialBegin(r))
    \/ \E r \in Runners : Bot(SendOk(r))
    \/ \E r \in Runners : Bot(Wake(r))

SerialSpec == SerialInit /\ [][SerialNext]_vars

Next ==
    \/ Bot(Tick)
    \/ \E r \in Runners : Bot(Begin(r))
    \/ \E r \in Runners : Bot(FetchFails(r))
    \/ \E r \in Runners : Bot(ChannelMissing(r))
    \/ \E r \in Runners : Bot(SendOk(r))
    \/ \E r \in Runners : Bot(SendFails(r))
    \/ \E r \in Runners : Bot(Wake(r))
    \/ Checker(GetNotificationsFails)
    \/ Checker(GetNotifications)
    \/ Checker(SendToDiscord)
    \/ Checker(PostOk)
    \/ Checker(PostFails)
    \/ Checker(FormatCrash)
    \/ Checker(RunExit)

Spec == Init /\ [][Next]_vars
(***************************************************************************)
(* Properties                                                              *)
(***************************************************************************)
NonDecreasing(list) ==
    \A i \in 1..Len(list) : \A j \in i..Len(list) :
        list[i].updated_at <= list[j].updated_at

NoDuplicates(list) == \A i, j \in 1..Len(list) : list[i] = list[j] => i = j

CeilDiv(n, d) == (n + d - 1) \div d

\* this step starts a run of fetch_and_send_notifications for r
Starts(r) == run_id'[r] # run_id[r]

\* the notifications of r's run that were not sent, and those whose send raised
NotSent(r) == {failed[r][i].notification : i \in 1..Len(failed[r])}

SendFailed(r) ==
    {failed[r][i].notification : i \in {j \in 1..Len(failed[r]) : failed[r][j].step = "send"}}

\* this step ends a run of r that failed: it raised, or a send of it raised
EndsFailedRun(r) ==
    /\ Starts(r) \/ pc[r] \in {"send", "sleep"}
    /\ \/ pc'[r] = "raised"
       \/ pc'[r] = "done" /\ SendFailed(r)' # {}

\* C1: a run that reached its send loop and returned has called
\* save_last_check when every notification it selected was sent, and has not
\* called it when a send of the run failed.
C1_SavedIffFullyPublished ==
    \A r \in Runners :
        pc[r] = "done" =>
            /\ sent[r] = SendOrder(r) => save_called[r]
            /\ SendFailed(r) # {} => ~save_called[r]

\* C2: the checkpoint read from last_check.json never moves backward in any
\* step, and a step that ends a failed run leaves the file as it was.
C2_CheckpointNeverMovesBackward ==
    [][/\ load_last_check(last_check_file') >= load_last_check(last_check_file)
       /\ \A r \in Runners : EndsFailedRun(r) => last_check_file' = last_check_file
      ]_vars

\* C3: a step in which get_user or the listing raises leaves the checkpoint
\* file as it was, and the aborted run has sent nothing, has not called
\* save_last_check and raises to its caller.
C3_FetchFailureAborts ==
    [][\A r \in Runners :
          Starts(r) /\ pc'[r] = "raised" =>
              /\ last_check_file' = last_check_file
              /\ sent'[r] = <<>>
              /\ sent_count'[r] = 0
              /\ ~save_called'[r]
              /\ result'[r] = Raised
      ]_vars

C3_Witness ==
    \E r \in Runners :
        /\ pc[r] = "raised"
        /\ feed # <<>>
        /\ last_check_file.kind = "ts"
        /\ \E i \in 1..Len(feed) : feed[i].updated_at > last_check_file.t

\* the fetched notifications a run with checkpoint T has to publish
Newer(r) == {n \in Range(fetched[r]) : n.updated_at > last_check[r]}

\* C5: in a run that loaded a checkpoint T, the notifications selected for
\* publishing are exactly the fetched ones with updated_at > T, each once, the
\* send loop takes them in non-decreasing updated_at order, and what has been
\* sent is what the loop has passed, less the notifications that failed;
\* send_to_discord too works on its list in non-decreasing updated_at order.
C5_PublishesNewerOldestFirst ==
    /\ ck_pc \in {"sending", "returned", "exited"} => NonDecreasing(notifications)
    /\ \A r \in Runners :
        pc[r] \in {"send", "sleep", "done"} /\ last_check[r] # NoTime =>
            /\ Range(SendOrder(r)) = Newer(r)
            /\ NoDuplicates(SendOrder(r))
            /\ NonDecreasing(SendOrder(r))
            /\ NonDecreasing(sent[r])
            /\ NoDuplicates(sent[r])
            /\ Range(sent[r]) \subseteq Newer(r)
            /\ Range(sent[r]) \cap NotSent(r) = {}
            /\ pc[r] = "done" => Range(sent[r]) \cup NotSent(r) = Newer(r)

C5_Witness ==
    \E r \in Runners :
        /\ pc[r] = "done"
        /\ last_check[r] # NoTime
        /\ failed[r] = <<>>
        /\ Len(sent[r]) >= 3
        /\ Len(sent[r]) < Len(fetched[r])
        /\ ~NonDecreasing(fetched[r])
        /\ \E i \in 1..Len(fetched[r]) : fetched[r][i].updated_at = last_check[r]

\* the batches of posts 1..k cover items 1..min(10k, N) of list, post by post
CoversInOrder(list) ==
    \A k \in 1..Len(posts) :
        /\ posts[k].batch =
              Ids(SubSeq(list, BatchSize * (k - 1) + 1, Min(BatchSize * k, Len(list))))
        /\ Len(posts[k].payload.embeds) <= BatchSize

\* C6: send_to_discord works on the oldest-first order of its input; post k
\* covers items 10(k-1)+1 .. min(10k, N) of it with at most 10 embeds, and
\* when every post succeeded there are exactly ceil(N/10) posts.
C6_BatchesOfTen ==
    ck_pc \in {"sending", "returned", "exited"} =>
        /\ NonDecreasing(notifications)
        /\ response_ok = "ok" =>
              /\ Len(notifications) = Len(ApiResponse(feed, params_since))
              /\ Range(notifications) = Range(ApiResponse(feed, params_since))
        /\ CoversInOrder(notifications)
        /\ \A k \in 1..(Len(posts) - 1) : Len(posts[k].batch) = BatchSize
        /\ success = "True" /\ notifications # <<>> =>
              /\ Len(posts) = CeilDiv(Len(notifications), BatchSize)
              /\ formatted = Ids(notifications)
              /\ NoDuplicates(formatted)

C6_Witness ==
    /\ success = "True"
    /\ Len(notifications) = 23
    /\ Len(posts) = 3
    /\ Len(posts[1].batch) = 10
    /\ Len(posts[2].batch) = 10
    /\ Len(posts[3].batch) = 3
    /\ Len(posts[1].payload.embeds) < 10

\* C7: a failed post is the last post of the call: the call has returned
\* False, every post before it succeeded, nothing beyond the failed batch was
\* formatted, and posts already made are never taken back.
C7_FailureStopsLaterBatches ==
    /\ [](\A k \in 1..Len(posts) :
            ~posts[k].ok =>
                /\ k = Len(posts)
                /\ success = "False"
                /\ ck_pc \in {"returned", "exited"}
                /\ \A j \in 1..(k - 1) : posts[j].ok
                /\ Len(formatted) = Min(BatchSize * k, Len(notifications)))
    /\ [][Len(posts') >= Len(posts) /\ SubSeq(posts', 1, Len(posts)) = posts]_vars

C7_Witness ==
    /\ Len(notifications) > 2 * BatchSize
    /\ Len(posts) = 2
    /\ posts[1].ok
    /\ ~posts[2].ok
    /\ ck_pc = "exited"

AllPosted ==
    /\ Len(posts) = CeilDiv(Len(notifications), BatchSize)
    /\ \A k \in 1..Len(posts) : posts[k].ok
    /\ CoversInOrder(notifications)

\* C8: once send_to_discord has returned, it returned True exactly when every
\* batch of its input was posted and every post succeeded (for an empty input:
\* True with no post), and run() ends with exit status 1 exactly when
\* send_to_discord returned False.
C8_SuccessIffAllPosted ==
    /\ success # "none" => (success = "True" <=> AllPosted)
    /\ success # "none" /\ notifications = <<>> => success = "True" /\ posts = <<>>
    /\ ck_pc = "exited" => (exit_status = 1 <=> success = "False")

C8_Witness ==
    /\ program = "checker"
    /\ ck_pc = "exited"
    /\ exit_status = 1
    /\ Len(posts) = 3

C8_WitnessEmpty ==
    /\ program = "send_to_discord"
    /\ notifications = <<>>
    /\ success = "True"

\* the stored or configured checkpoint value cannot be parsed as a timestamp
UnparsableFile == last_check_file.kind \in {"empty", "nokey", "badts"}

UnparsableEnv == last_check_time.kind = "garbage"

\* C9: a run started with an unparsable last_check.json loads no checkpoint
\* and, unless the fetch itself fails, selects the fetched notifications
\* unfiltered, at most 10 of them; a run with no checkpoint never sends more
\* than 10; get_notifications with an unparsable LAST_CHECK_TIME sends its
\* request without a since parameter.
C9_UnparsableCheckpointFallsBack ==
    /\ [][\A r \in Runners :
             Starts(r) /\ UnparsableFile /\ pc'[r] # "nochannel" =>
                 /\ last_check'[r] = NoTime
                 /\ pc'[r] # "raised" =>
                       /\ Len(new_notifications'[r]) = Min(FirstRunLimit, Len(feed))
                       /\ Range(new_notifications'[r]) \subseteq Range(feed)
                       /\ NoDuplicates(new_notifications'[r])
         ]_vars
    /\ [](\A r \in Runners : last_check[r] = NoTime => Len(sent[r]) <= FirstRunLimit)
    /\ [][ck_pc = "start" /\ ck_pc' # "start" /\ UnparsableEnv =>
             params_since' = NoTime /\ (response_ok' = "ok" => notifications' = feed)
         ]_vars

C9_Witness ==
    \E r \in Runners :
        /\ pc[r] = "done"
        /\ UnparsableFile
        /\ last_check[r] = NoTime
        /\ Len(fetched[r]) > FirstRunLimit
        /\ Len(sent[r]) = FirstRunLimit

C9_WitnessEnv ==
    /\ UnparsableEnv
    /\ ck_pc = "exited"
    /\ response_ok = "ok"
    /\ final_result = "success"

\* C4: a run of notification_checker.py whose notifications request failed
\* ends as a failed run: with a non-zero exit status, and not with the result
\* of a run that found no notifications.
C4_FetchFailureIsFailedRun ==
    ck_pc = "exited" /\ response_ok = "error" =>
        exit_status # 0 /\ final_result # "no_new"

\* the web URL of an API URL https://api.github.com/repos/<owner>/<repo>/<kind>/<n>:
\* host and prefix replaced, 'pulls' as the kind replaced by 'pull'
ExpectedWebUrl(api_url) ==
    <<"https:", "/", "/", "github.com", "/", api_url[8], "/", api_url[10], "/",
      IF api_url[12] = "pulls" THEN "pull" ELSE api_url[12], "/", api_url[14]>>

\* C10: the URL both formatters give a pull-request or issue notification is
\* its API URL with 'api.github.com/repos' replaced by 'github.com' and, for a
\* pull request, the '/pulls/' segment replaced by '/pull/'; an issue URL
\* keeps '/issues/' and nothing else changes.
C10_UrlRewriting ==
    fmt_notification.subject_type \in {"PullRequest", "Issue"} =>
        /\ "checker" \in fmt_done /\ fmt_embed # NoEmbed =>
              fmt_embed.url = ExpectedWebUrl(fmt_notification.url)
        /\ "bot" \in fmt_done =>
              fmt_display_url = ExpectedWebUrl(fmt_notification.url)

\* the reason codes that have a phrase in the lookup table
TableReasons ==
    {<<"assign">>, <<"author">>, <<"comment">>, <<"invitation">>, <<"manual">>,
     <<"mention">>, <<"review", "_", "requested">>, <<"security", "_", "alert">>,
     <<"state", "_", "change">>, <<"subscribed">>, <<"team", "_", "mention">>}

\* text is the rendering of the reason code: its table phrase, or for a code
\* that is not in the table the code with every underscore replaced by a
\* space and every word capitalised
ReasonRenderedAs(reason, text) ==
    /\ reason = <<"review", "_", "requested">> =>
           text = <<"Your review was requested">>
    /\ reason \in TableReasons => text = reason_descriptions(reason)
    /\ reason \notin TableReasons =>
           /\ Len(text) = Len(reason)
           /\ \A k \in 1..Len(reason) :
                  text[k] = IF reason[k] = "_" THEN " " ELSE Title(reason[k])

\* C11: the reason shown by either formatter is the table phrase of the
\* reason code ('Your review was requested' for review_requested), and for a
\* code that is not in the table the code itself with every underscore
\* replaced by a space and every word capitalised.
C11_ReasonRendered ==
    /\ "checker" \in fmt_done /\ fmt_embed # NoEmbed =>
           ReasonRenderedAs(fmt_notification.reason, fmt_embed.reason)
    /\ "bot" \in fmt_done =>
           ReasonRenderedAs(fmt_notification.reason, fmt_reason_text)

\* C12: no failure of an enrichment lookup aborts a run: send_to_discord never
\* ends in an exception of the formatter, a call of it in which no post
\* failed has formatted every notification of its input, and a finished run
\* of the bot has sent every selected notification but those that failed
\* themselves.
C12_EnrichmentFailureNeverAborts ==
    /\ ck_pc \notin {"fatal", "raised"}
    /\ ck_pc \in {"returned", "exited"} /\ (\A k \in 1..Len(posts) : posts[k].ok) =>
           formatted = Ids(notifications)
    /\ \A r \in Runners :
           pc[r] = "done" => Len(sent[r]) + Len(failed[r]) = Len(SendOrder(r))

\* n is a workflow notification in a cancelled or skipped state, as its title
\* or the conclusion of its completed run tells
CancelledOrSkipped(n) ==
    /\ n.subject_type \in {"CheckSuite", "CheckRun"}
    /\ \/ n.title_cancelled
       \/ /\ SubjectDetails(n).ok
          /\ SubjectDetails(n).status = "completed"
          /\ SubjectDetails(n).conclusion \in {"cancelled", "skipped"}

\* C13: format_notification_for_discord returns None exactly for a CheckSuite
\* or CheckRun notification in a cancelled or skipped state, and a display
\* record for every other notification.
C13_SuppressesCancelledOrSkipped ==
    "checker" \in fmt_done /\ ~fmt_raised =>
        (fmt_embed = NoEmbed <=> CancelledOrSkipped(fmt_notification))

\* the details lookup of n succeeded
LookupSucceeded(n) == n.url # NoUrl /\ n.lookup.ok

\* C14: the color of the display record is the base color of the subject
\* type (the default color for a type without one); for a PullRequest or
\* Issue whose details lookup succeeded it is the merged color for a merged
\* pull request, otherwise the open or the closed color of its state; when
\* the lookup failed the base color of the type is kept.
C14_ColorByTypeAndState ==
    "checker" \in fmt_done /\ fmt_embed # NoEmbed =>
        LET n == fmt_notification
            type == n.subject_type
            merged == type = "PullRequest" /\ n.lookup.merged
        IN /\ type \in {"PullRequest", "Issue"} /\ LookupSucceeded(n) =>
                  /\ merged => fmt_embed.color = STATE_COLORS("merged")
                  /\ ~merged /\ n.lookup.state = "open" =>
                         fmt_embed.color = STATE_COLORS("open")
                  /\ ~merged /\ n.lookup.state = "closed" =>
                         fmt_embed.color = STATE_COLORS("closed")
           /\ type \notin {"PullRequest", "Issue"} \/ ~LookupSucceeded(n) =>
                  fmt_embed.color = TYPE_COLORS(type)
           /\ type = "CheckRun" => fmt_embed.color = 5791849

C14_Witness ==
    /\ "checker" \in fmt_done
    /\ fmt_embed # NoEmbed
    /\ fmt_notification.subject_type = "PullRequest"
    /\ fmt_notification.lookup.ok
    /\ fmt_notification.lookup.merged
    /\ fmt_notification.lookup.state = "closed"
    /\ fmt_embed.color = 9133302
    /\ fmt_embed.color # STATE_COLORS("closed")

\* the runners whose fetch_and_send_notifications is in progress
InProgress == {r \in Runners : pc[r] \in {"send", "sleep"}}

\* C15: at most one execution of fetch_and_send_notifications is in progress
\* at any time: the periodic task and the !check command never interleave.
C15_InvocationsSerialized == Cardinality(InProgress) <= 1

\* this step ends a run of r by its return at the end of the function
EndsRun(r) ==
    /\ Starts(r) \/ pc[r] \in {"send", "sleep"}
    /\ pc'[r] = "done"

\* C16 as stated: every run that completed without raising has written the
\* checkpoint.
C16_EveryReturnedRunSaved ==
    \A r \in Runners : pc[r] \in {"done", "nochannel"} => save_called[r]

\* C16: a run that found its channel reads the checkpoint when it starts; it
\* has not called save_last_check while it is in its send loop and has called
\* it when it has returned, whatever it sent; last_check.json changes only in
\* the step that ends a run, in which a successful save stores the current
\* time.
C16_CheckpointReadFirstWrittenLast ==
    /\ [](\A r \in Runners :
             /\ pc[r] \in {"send", "sleep"} => ~save_called[r]
             /\ pc[r] = "done" => save_called[r])
    /\ [][\A r \in Runners :
             Starts(r) /\ pc'[r] # "nochannel" =>
                 last_check'[r] = load_last_check(last_check_file)
         ]_vars
    /\ [][last_check_file' # last_check_file =>
             /\ \E r \in Runners : EndsRun(r)
             /\ last_check_file' \in {FileTs(now), FileEmpty}
         ]_vars

C16_Witness ==
    \E r \in Runners :
        /\ pc[r] = "done"
        /\ save_called[r]
        /\ fetched[r] # <<>>
        /\ new_notifications[r] = <<>>
        /\ last_check[r] # NoTime
        /\ last_check_file = FileTs(now)
        /\ now > last_check[r]

\* C17: the display record of a CheckSuite or CheckRun notification whose
\* subject has no URL carries a link all the same: the URL of a workflow run
\* or the repository root link.
C17_WorkflowRecordCarriesLink ==
    /\ "checker" \in fmt_done
    /\ fmt_embed # NoEmbed
    /\ fmt_notification.subject_type \in {"CheckSuite", "CheckRun"}
    /\ fmt_notification.url = NoUrl
    => fmt_embed.url # NoUrl

\* the comments fetched for the notification
FetchedComments(n) ==
    Range(n.issue_comments)
    \cup (IF n.subject_type = "PullRequest" THEN Range(n.review_comments) ELSE {})

\* C18: for a comment or mention notification on an issue or pull request
\* with a comment within 300 seconds of its updated_at, the selected comment
\* is one with the least absolute time difference among the fetched comments.
C18_SelectsClosestComment ==
    LET n == fmt_notification
        dist(c) == Abs(n.updated_at - c.created_at)
    IN /\ "checker" \in fmt_done
       /\ fmt_embed # NoEmbed
       /\ n.reason \in {<<"comment">>, <<"mention">>}
       /\ n.subject_type \in {"PullRequest", "Issue"}
       /\ \E c \in FetchedComments(n) : dist(c) <= time_tolerance_seconds
       => /\ fmt_embed.comment \in FetchedComments(n)
          /\ \A c \in FetchedComments(n) : dist(fmt_embed.comment) <= dist(c)

\* C19: send_to_discord pauses after a post exactly when the post succeeded
\* and another batch follows it: every post but the last was followed by one
\* pause, and neither the post of the final batch nor a failed post is.
C19_PauseBetweenPosts ==
    \A k \in 1..Len(posts) :
        /\ posts[k].paused <=> posts[k].ok /\ BatchSize * k < Len(notifications)
        /\ k < Len(posts) => posts[k].paused
        /\ k = CeilDiv(Len(notifications), BatchSize) \/ ~posts[k].ok => ~posts[k].paused

C19_Witness ==
    /\ ck_pc \in {"returned", "exited"}
    /\ Len(posts) = 3
    /\ posts[1].ok /\ posts[1].paused
    /\ posts[2].ok /\ posts[2].paused
    /\ posts[3].ok /\ ~posts[3].paused

\* C20: a run that loaded no checkpoint selects min(10, N) of its N fetched
\* notifications, none of the others is newer than a selected one, the send
\* loop takes the selected ones in non-decreasing updated_at order, and the
\* run sends nothing else and so at most 10.
C20_FirstRunSendsTenNewest ==
    \A r \in Runners :
        pc[r] \in {"send", "sleep", "done"} /\ last_check[r] = NoTime =>
            /\ Len(SendOrder(r)) = Min(10, Len(fetched[r]))
            /\ NoDuplicates(SendOrder(r))
            /\ Range(SendOrder(r)) \subseteq Range(fetched[r])
            /\ \A n \in Range(fetched[r]) \ Range(SendOrder(r)) :
                   \A m \in Range(SendOrder(r)) : n.updated_at <= m.updated_at
            /\ NonDecreasing(SendOrder(r))
            /\ NonDecreasing(sent[r])
            /\ NoDuplicates(sent[r])
            /\ Range(sent[r]) \subseteq Range(SendOrder(r))
            /\ Len(sent[r]) <= 10
            /\ pc[r] = "done" => Range(sent[r]) \cup NotSent(r) = Range(SendOrder(r))

C20_Witness ==
    \E r \in Runners :
        /\ pc[r] = "done"
        /\ last_check[r] = NoTime
        /\ Len(fetched[r]) > 10
        /\ Len(sent[r]) = 10
        /\ ~NonDecreasing(fetched[r])
        /\ \E i \in 1..Len(fetched[r]) :
               /\ fetched[r][i] \notin Range(sent[r])
               /\ \A j \in 1..Len(fetched[r]) :
                      fetched[r][i].updated_at <= fetched[r][j].updated_at

\* C23: in every payload send_to_discord posted, the count of the content
\* line equals the number of embeds of the payload.
C23_ContentCountIsEmbedCount ==
    \A k \in 1..Len(posts) :
        posts[k].payload.content_count = Len(posts[k].payload.embeds)

\* the notifications of list that did not fail, in the order of list
WithoutFailed(r, list) == SelectSeq(list, LAMBDA n : n \notin NotSent(r))

\* the number of notifications of r's send loop that have been attempted
Attempted(r) ==
    CASE pc[r] = "send" -> idx[r] - 1
      [] pc[r] = "sleep" -> idx[r]
      [] OTHER -> Len(SendOrder(r))

\* C25: a notification whose format or send failed does not stop the run:
\* the notifications attempted so far are a prefix of the send order, each
\* either sent or failed, those sent are in the order of the loop, a finished
\* run has attempted them all, and the count it returns is the number of
\* notifications sent.
C25_FailureDoesNotStopTheRun ==
    \A r \in Runners :
        pc[r] \in {"send", "sleep", "done"} =>
            /\ Attempted(r) \in 0..Len(SendOrder(r))
            /\ sent[r] = WithoutFailed(r, SubSeq(SendOrder(r), 1, Attempted(r)))
            /\ NotSent(r) \subseteq Range(SubSeq(SendOrder(r), 1, Attempted(r)))
            /\ Len(sent[r]) + Len(failed[r]) = Attempted(r)
            /\ sent_count[r] = Len(sent[r])
            /\ pc[r] = "done" => result[r] = Len(sent[r])

C25_Witness ==
    \E r \in Runners :
        /\ pc[r] = "done"
        /\ Len(failed[r]) = 1
        /\ result[r] >= 2
        /\ \E i, j \in 1..Len(SendOrder(r)) :
              /\ i < j
              /\ SendOrder(r)[i] \in NotSent(r)
              /\ SendOrder(r)[j] \in Range(sent[r])

\* C27: a step that ends a run with a failed save_last_check (the file does
\* not hold the current time afterwards) still ends it by a return of the
\* sent count, and load_last_check reads from the file what it read before.
C27_FailedSaveKeepsCheckpoint ==
    [][\A r \in Runners :
          EndsRun(r) /\ last_check_file' # FileTs(now) =>
              /\ result'[r] = sent_count'[r]
              /\ load_last_check(last_check_file') = load_last_check(last_check_file)
      ]_vars

\* the on_ready events that started the periodic task
TaskStarts == {i \in 1..Len(ready_log) : ready_log[i] = "started"}

\* C24: over any sequence of on_ready events the periodic task is started at
\* most once, an event starts it only when it is not running, an event that
\* does not find the channel never starts it, and the periodic check runs
\* only when the task has been started.
C24_TaskStartedOnce ==
    /\ [](/\ Cardinality(TaskStarts) <= 1
          /\ task_running <=> TaskStarts # {}
          /\ run_id["periodic"] # 0 => task_running)
    /\ [][Len(ready_log') > Len(ready_log) =>
             LET event == ready_log'[Len(ready_log')]
             IN /\ event = "started" => ~task_running /\ task_running'
                /\ event = "running" => task_running /\ task_running'
                /\ event = "no_channel" => task_running' = task_running
         ]_vars

C24_Witness ==
    /\ Len(ready_log) = MaxReady
    /\ ready_log[1] = "no_channel"
    /\ ready_log[Len(ready_log)] = "started"
    /\ pc["periodic"] = "done"

\* C26: a !check command refused for its channel changes nothing of the
\* bot's runs: none is started, nothing is fetched or sent and
\* last_check.json stays as it is; and a run that does not find its channel
\* returns 0 with nothing fetched, nothing sent and the file unchanged.
C26_NoRunWithoutChannel ==
    /\ [][check_refused' # check_refused =>
             /\ runs' = runs
             /\ run_id' = run_id
             /\ pc' = pc
             /\ fetched' = fetched
             /\ sent' = sent
             /\ last_check_file' = last_check_file
         ]_vars
    /\ [][\A r \in Runners :
             Starts(r) /\ pc'[r] = "nochannel" =>
                 /\ result'[r] = 0
                 /\ fetched'[r] = <<>>
                 /\ sent'[r] = <<>>
                 /\ ~save_called'[r]
                 /\ last_check_file' = last_check_file
         ]_vars

C26_Witness ==
    /\ check_refused = 1
    /\ pc["manual"] = "nochannel"
    /\ feed # <<>>
    /\ last_check_file = FileAbsent
    /\ \A r \in Runners : sent[r] = <<>>

\* C21: with serialized runs and no failure, when no run is in progress every
\* unread notification newer than the checkpoint a finished run had loaded
\* has been sent by that run or a later one, or is still newer than the
\* stored checkpoint, so that a later run selects it.
C21_NoNotificationSkipped ==
    \A r \in Runners :
        /\ pc[r] = "done"
        /\ last_check[r] # NoTime
        /\ \A q \in Runners : Idle(q)
        => \A n \in Range(feed) :
               n.updated_at > last_check[r] =>
                   \/ \E q \in Runners : run_id[q] >= run_id[r] /\ n \in Range(sent[q])
                   \/ n.updated_at > load_last_check(last_check_file)

\* C22: with serialized runs and no failure, a run that follows a finished
\* run has loaded a checkpoint, and a notification it sends that the earlier
\* run had sent too has a later updated_at than the one sent before and than
\* the checkpoint the run loaded.
C22_NoNotificationSentTwice ==
    \A r1, r2 \in Runners :
        0 < run_id[r1] /\ run_id[r1] < run_id[r2] /\ pc[r1] = "done" =>
            /\ last_check[r2] # NoTime
            /\ \A i \in 1..Len(sent[r1]) : \A j \in 1..Len(sent[r2]) :
                   sent[r1][i].id = sent[r2][j].id =>
                       /\ sent[r2][j].updated_at > sent[r1][i].updated_at
                       /\ sent[r2][j].updated_at > last_check[r2]
                       /\ last_check[r2] >= sent[r1][i].updated_at

C22_Witness ==
    \E r1, r2 \in Runners :
        /\ 0 < run_id[r1] /\ run_id[r1] < run_id[r2]
        /\ pc[r1] = "done" /\ pc[r2] = "done"
        /\ Len(sent[r1]) = 2
        /\ Len(sent[r2]) = 1
        /\ \E i \in 1..2 : sent[r1][i].id = sent[r2][1].id
        /\ \E i \in 1..2 : sent[r1][i] \in Range(fetched[r2])
====
